---- MODULE Spec2Model ----
(***************************************************************************)
(* Verification model of the filing ingestion-and-retrieval pipeline of    *)
(* investron: the indexing orchestrator (filing_indexer.py, indexing.py),  *)
(* the chunker (filing_chunker.py) and the agentic tool-calling loop       *)
(* (ai_service.py).                                                        *)
(*                                                                         *)
(* The program runs on one asyncio event loop.  An action of the model is  *)
(* the completion of one awaited call together with all the code that runs *)
(* up to the next await: between two awaits nothing else runs, at an await *)
(* any other task may.  A task's pc names the call it is awaiting.         *)
(***************************************************************************)
EXTENDS Integers, Sequences, FiniteSets, TLC

\* ------------------------------------------------------------------ bounds
MaxTasks == 2        \* concurrent request / background tasks
MaxFilings == 2      \* filings the listing collaborator returns at most
MaxChunks == 1       \* chunks one filing yields at most
MaxTextLen == 3      \* tokens of one section's text at most
MaxWindow == 2       \* largest max_tokens and largest overlap
MaxTables == 1       \* tables of one section at most
MaxToolIterations == 1   \* largest rag_max_tool_iterations
MaxTokens == 1       \* content chunks of one chat turn at most
MaxBlocks == 3       \* item headers of one cleaned filing text at most
MaxRows == 3         \* rows of filing_chunks at most
MaxCount == 2        \* token_count of a stored chunk at most
MaxTopK == 2         \* top_k at most
MaxBudget == 3       \* max_tokens at most

\* ------------------------------------------------------- program constants
filing_index_max_10k == 3
filing_index_max_10q == 5
filing_index_max_8k == 10
chunk_max_tokens == 512
chunk_overlap_tokens == 50
min_section_len == 50        \* len(section_text) < 50
placeholder_len == 23        \* len("[[TABLE_PLACEHOLDER_0]]")
min_sections == 2            \* len(sections) >= 2
topics_cap == 8              \* topics[:8]

Tasks == 1..MaxTasks

\* Tickers as callers spell them, and str.upper() on them.
RawTickers == {"aapl", "AAPL"}
Companies == {"AAPL"}

Upper(ticker) ==
    CASE ticker = "aapl" -> "AAPL"
      [] ticker = "AAPL" -> "AAPL"
      [] OTHER -> ticker

VARIABLES
    filing_index_status,   \* table filing_index_status: one row per ticker
    filing_chunks,         \* table filing_chunks: the rows of each ticker
    companies,             \* table companies: tickers with a resolved CIK
    indexing_locks,        \* _indexing_locks: ticker -> lock is held
    indexing_progress,     \* _indexing_progress: ticker -> message
    pc,                    \* per task: the call it is awaiting
    tk,                    \* per task: the ticker argument as passed
    rl,                    \* per task: locals of _run_indexing_pipeline
    returned,              \* what the step just taken returned to its caller
    \* chunk_filing (filing_chunker.py), one call
    ck_pc,                 \* where the call is
    ck_max,                \* max_tokens
    ck_overlap,            \* overlap
    ck_left,               \* names of the sections not yet reached
    ck_section,            \* the section at hand: name, tokens, tables
    ck_start,              \* start of _split_text_by_tokens
    ck_windows,            \* chunks of _split_text_by_tokens
    ck_chunks,             \* chunks of chunk_filing
    ck_idx,                \* idx of chunk_filing
    ck_seen,               \* history: name, category and tables of the
                           \* sections of parsed.sections reached so far
    \* stream_chat_response_with_tools (ai_service.py), one chat turn
    ch_pc,                 \* the await the generator is at
    ch_max_iterations,     \* max_iterations
    ch_iteration,          \* iteration
    ch_full_messages,      \* full_messages
    ch_content_parts,      \* len(content_parts)
    ch_tool_calls_by_index, \* tool_calls_by_index, in insertion order
    ch_finish_reason,      \* finish_reason
    ch_todo,               \* assistant_msg["tool_calls"] not yet executed
    ch_calls,              \* history: the completion calls made
    ch_events,             \* history: the events sent to the client
    \* parse_filing_html (filing_parser.py), one call
    pa_pc,                 \* where the call is
    pa_filing_type,        \* filing_type
    pa_text,               \* clean_text, with tables_md in it
    pa_sections,           \* sections, as _detect_sections returned them
    pa_parsed,             \* the ParsedFiling returned
    \* search_filing_chunks (vector_search.py), one call
    vs_pc,                 \* where the call is
    vs_store,              \* the rows of filing_chunks, nearest first
    vs_top_k,              \* top_k
    vs_max_tokens,         \* max_tokens
    vs_rows,               \* rows
    vs_results             \* results

idxVars == <<filing_index_status, filing_chunks, companies, indexing_locks,
             indexing_progress, pc, tk, rl, returned>>

chunkVars == <<ck_pc, ck_max, ck_overlap, ck_left, ck_section, ck_start,
               ck_windows, ck_chunks, ck_idx, ck_seen>>

chatVars == <<ch_pc, ch_max_iterations, ch_iteration, ch_full_messages,
              ch_content_parts, ch_tool_calls_by_index, ch_finish_reason,
              ch_todo, ch_calls, ch_events>>

parseVars == <<pa_pc, pa_filing_type, pa_text, pa_sections, pa_parsed>>

searchVars ==
    <<vs_pc, vs_store, vs_top_k, vs_max_tokens, vs_rows, vs_results>>

vars == <<idxVars, chunkVars, chatVars, parseVars, searchVars>>

\* A step of the orchestrator leaves the other components alone.
IdxOnly == UNCHANGED <<chunkVars, chatVars, parseVars, searchVars>>

\* ------------------------------------------------------------ IndexState
NoError == [kind |-> "null", errors |-> <<>>]

ErrorText(kind) == [kind |-> kind, errors |-> <<>>]

\* check_status reports a ticker without a row as not_indexed, 0, 0.
NoRow ==
    [status |-> "not_indexed", filings_indexed |-> 0, chunks_total |-> 0,
     error_message |-> NoError]

\* _update_status: the upsert replaces status, both counts and the message.
UpdateStatus(status, n_filings, n_chunks, error) ==
    [status |-> status, filings_indexed |-> n_filings,
     chunks_total |-> n_chunks, error_message |-> error]

\* Mutant of FinalStatus: one indexed filing is not enough.
FinalStatusOffByOne(n_indexed) == IF n_indexed <= 1 THEN "error" ELSE "ready"

\* Step 5 of _run_indexing_pipeline.
FinalStatus(n_indexed) == IF n_indexed = 0 THEN "error" ELSE "ready"

FinalError(n_indexed, errors) ==
    IF n_indexed = 0 THEN [kind |-> "all_failed", errors |-> errors]
    ELSE IF errors # <<>> THEN [kind |-> "joined", errors |-> errors]
    ELSE NoError

\* ------------------------------------------------------------ run locals
NoRun ==
    [filings |-> <<>>, i |-> 0, n |-> 0, total_chunks |-> 0,
     filings_indexed |-> 0, errors |-> <<>>,
     \* section_topics of the current filing is empty after a swallowed
     \* topic-extraction failure
     topics_failed |-> FALSE,
     \* the number of phrases extract_section_topics returned
     topics |-> 0,
     \* history, not read by the program: the filings for which
     \* _index_single_filing returned
     indexed |-> {},
     \* history, not read by the program: no DELETE request has removed
     \* rows of the company since the run took the lock
     alone |-> TRUE]

\* What get_filings can return: at most MaxFilings filings, newest first
\* (ORDER BY filing_date DESC), each with or without a filing_url.
Filing(d, u) == [filing_type |-> "10-K", filing_date |-> d, has_url |-> u]

Listings ==
    UNION {{[k \in 1..len |-> Filing(len - k + 1, u[k])] :
                u \in [1..len -> BOOLEAN]} : len \in 0..MaxFilings}

\* type_limits, and the default of type_limits.get(ft, 2).
TypeLimit(ft) ==
    CASE ft = "10-K" -> filing_index_max_10k
      [] ft = "10-Q" -> filing_index_max_10q
      [] ft = "8-K" -> filing_index_max_8k
      [] OTHER -> 2

\* The first `limit` filings of type ft.  The listing is newest first and
\* sorted() is stable, so each group keeps the listing's order.
RECURSIVE TakeOfType(_, _, _)
TakeOfType(fs, ft, limit) ==
    IF fs = <<>> \/ limit = 0 THEN <<>>
    ELSE IF Head(fs).filing_type = ft
         THEN <<Head(fs)>> \o TakeOfType(Tail(fs), ft, limit - 1)
         ELSE TakeOfType(Tail(fs), ft, limit)

\* The keys of filings_by_type in insertion order: types by first occurrence.
RECURSIVE TypesInOrder(_, _)
TypesInOrder(fs, seen) ==
    IF fs = <<>> THEN <<>>
    ELSE IF Head(fs).filing_type \in seen
         THEN TypesInOrder(Tail(fs), seen)
         ELSE <<Head(fs).filing_type>>
              \o TypesInOrder(Tail(fs), seen \cup {Head(fs).filing_type})

RECURSIVE TakeGroups(_, _)
TakeGroups(fs, types) ==
    IF types = <<>> THEN <<>>
    ELSE TakeOfType(fs, Head(types), TypeLimit(Head(types)))
         \o TakeGroups(fs, Tail(types))

\* Lines 176-192: group by type, newest first, the first `limit` of each.
FilingsToIndex(all_filings) ==
    TakeGroups(all_filings, TypesInOrder(all_filings, {}))

\* The top of the loop of step 4, run until a filing awaits its first call
\* or the loop ends: a filing without URL is recorded and skipped.
RECURSIVE LoopFrom(_, _, _)
LoopFrom(filings, i, errors) ==
    IF i > Len(filings)
    THEN [pc |-> "final", i |-> i, errors |-> errors]
    ELSE IF ~filings[i].has_url
         THEN LoopFrom(filings, i + 1, Append(errors, i))
         ELSE [pc |-> "filing_id", i |-> i, errors |-> errors]

\* ---------------------------------------------------------------- Init
IdxInit ==
    /\ filing_index_status = [c \in Companies |-> NoRow]
    /\ filing_chunks = [c \in Companies |-> <<>>]
    /\ companies = {}
    /\ indexing_locks = [k \in {} |-> FALSE]
    /\ indexing_progress = [c \in Companies |-> "none"]
    /\ pc = [r \in Tasks |-> "idle"]
    /\ tk = [r \in Tasks |-> "AAPL"]
    /\ rl = [r \in Tasks |-> NoRun]
    /\ returned = "none"

\* Task r serves the next request: tasks are interchangeable, a request
\* gets the first idle one.
Free(r) == pc[r] = "idle" /\ \A q \in 1..(r - 1) : pc[q] # "idle"

\* The task ends its request with result res.
Return(r, res) ==
    /\ pc' = [pc EXCEPT ![r] = "idle"]
    /\ tk' = [tk EXCEPT ![r] = "AAPL"]
    /\ rl' = [rl EXCEPT ![r] = NoRun]
    /\ returned' = res

\* The key of _indexing_locks and of every row: ticker = ticker.upper().
LockKey(ticker) == Upper(ticker)

Locked(key) == key \in DOMAIN indexing_locks /\ indexing_locks[key]

SetLock(key, held) ==
    [k \in DOMAIN indexing_locks \cup {key} |->
        IF k = key THEN held ELSE indexing_locks[k]]

\* ------------------------------------------------- api/indexing.py handlers

\* POST /{ticker}/index up to its first write: get_index_status, and the
\* early return when the row says indexing.
TriggerCheck(r, ticker) ==
    /\ Free(r)
    /\ IF filing_index_status[Upper(ticker)].status = "indexing"
       THEN /\ Return(r, "already")
       ELSE /\ pc' = [pc EXCEPT ![r] = "trigger_write"]
            /\ tk' = [tk EXCEPT ![r] = Upper(ticker)]
            /\ UNCHANGED rl
            /\ returned' = "none"
    /\ UNCHANGED <<filing_index_status, filing_chunks, companies,
                   indexing_locks, indexing_progress>>
    /\ IdxOnly

\* The upsert of trigger_indexing commits; the background task is queued.
TriggerWrite(r) ==
    /\ pc[r] = "trigger_write"
    /\ filing_index_status' =
          [filing_index_status EXCEPT
              ![tk[r]] = UpdateStatus("indexing", 0, 0, NoError)]
    /\ pc' = [pc EXCEPT ![r] = "bg"]
    /\ UNCHANGED <<filing_chunks, companies, indexing_locks,
                   indexing_progress, tk, rl>>
    /\ returned' = "none"
    /\ IdxOnly

\* The locals of the runs after a DELETE request for the rows of key.
Disturbed(key) ==
    [q \in Tasks |->
        IF pc[q] \notin {"idle", "trigger_write", "bg"} /\ Upper(tk[q]) = key
        THEN [rl[q] EXCEPT !.alone = FALSE]
        ELSE rl[q]]

\* DELETE /{ticker}/index: delete_company_index, both deletes in one commit.
RemoveIndex(r, ticker) ==
    /\ Free(r)
    /\ filing_chunks' = [filing_chunks EXCEPT ![Upper(ticker)] = <<>>]
    /\ filing_index_status' =
          [filing_index_status EXCEPT ![Upper(ticker)] = NoRow]
    /\ rl' = Disturbed(Upper(ticker))
    /\ returned' = "deleted"
    /\ UNCHANGED <<companies, indexing_locks, indexing_progress, pc, tk>>
    /\ IdxOnly

\* ------------------------------------------ services/filing_indexer.py

\* The row key of a run: ticker = ticker.upper() (line 66).
Row(r) == Upper(tk[r])

SetProgress(r, msg) ==
    indexing_progress' = [indexing_progress EXCEPT ![Row(r)] = msg]

SetStatus(r, row) ==
    filing_index_status' = [filing_index_status EXCEPT ![Row(r)] = row]

\* The run leaves `async with lock` and the background task ends.
Release(r) == indexing_locks' = SetLock(LockKey(tk[r]), FALSE)

\* Mutant of RunConflict: the conflict is written to the status row.
RunConflictMarksError(r) ==
    /\ pc[r] = "bg"
    /\ Locked(LockKey(tk[r]))
    /\ SetStatus(r, UpdateStatus("error", 0, 0, ErrorText("conflict")))
    /\ Return(r, "conflict")
    /\ UNCHANGED <<filing_chunks, companies, indexing_locks,
                   indexing_progress>>
    /\ IdxOnly

\* index_company_filings finds the lock held and returns at once.
RunConflict(r) ==
    /\ pc[r] = "bg"
    /\ Locked(LockKey(tk[r]))
    /\ Return(r, "conflict")
    /\ UNCHANGED <<filing_index_status, filing_chunks, companies,
                   indexing_locks, indexing_progress>>
    /\ IdxOnly

\* Mutant of RunAcquire: the lock is taken without looking at locked().
RunAcquireUnguarded(r) ==
    /\ pc[r] = "bg"
    /\ indexing_locks' = SetLock(LockKey(tk[r]), TRUE)
    /\ pc' = [pc EXCEPT ![r] = "resolve"]
    /\ UNCHANGED <<filing_index_status, filing_chunks, companies,
                   indexing_progress, tk, rl>>
    /\ returned' = "none"
    /\ IdxOnly

\* index_company_filings takes the lock and _run_indexing_pipeline awaits
\* the SELECT of get_or_create_company.
RunAcquire(r) ==
    /\ pc[r] = "bg"
    /\ ~Locked(LockKey(tk[r]))
    /\ indexing_locks' = SetLock(LockKey(tk[r]), TRUE)
    /\ pc' = [pc EXCEPT ![r] = "resolve"]
    /\ UNCHANGED <<filing_index_status, filing_chunks, companies,
                   indexing_progress, tk, rl>>
    /\ returned' = "none"
    /\ IdxOnly

\* get_or_create_company: the row has a CIK and the run awaits its first
\* _update_status; or it has none and the run awaits edgar.lookup_cik.
RunResolve(r) ==
    /\ pc[r] = "resolve"
    /\ pc' = [pc EXCEPT ![r] =
                 IF Row(r) \in companies THEN "upsert" ELSE "lookup"]
    /\ UNCHANGED <<filing_index_status, filing_chunks, companies,
                   indexing_locks, indexing_progress, tk, rl>>
    /\ returned' = "none"
    /\ IdxOnly

\* EDGAR knows the ticker: the company row is inserted.
RunLookupFound(r) ==
    /\ pc[r] = "lookup"
    /\ companies' = companies \cup {Row(r)}
    /\ pc' = [pc EXCEPT ![r] = "upsert"]
    /\ UNCHANGED <<filing_index_status, filing_chunks, indexing_locks,
                   indexing_progress, tk, rl>>
    /\ returned' = "none"
    /\ IdxOnly

\* EDGAR does not: the run awaits _update_status(error).
RunLookupNone(r) ==
    /\ pc[r] = "lookup"
    /\ pc' = [pc EXCEPT ![r] = "notfound"]
    /\ UNCHANGED <<filing_index_status, filing_chunks, companies,
                   indexing_locks, indexing_progress, tk, rl>>
    /\ returned' = "none"
    /\ IdxOnly

\* Lines 158-160: status error, return.
RunCompanyNotFound(r) ==
    /\ pc[r] = "notfound"
    /\ SetStatus(r, UpdateStatus("error", 0, 0, ErrorText("company_not_found")))
    /\ Release(r)
    /\ Return(r, "not_found")
    /\ UNCHANGED <<filing_chunks, companies, indexing_progress>>
    /\ IdxOnly

\* Mutant of RunUpsert: the initial upsert is left out.
RunUpsertNoWrite(r) ==
    /\ pc[r] = "upsert"
    /\ SetProgress(r, "starting")
    /\ pc' = [pc EXCEPT ![r] = "list"]
    /\ UNCHANGED <<filing_index_status, filing_chunks, companies,
                   indexing_locks, tk, rl>>
    /\ returned' = "none"
    /\ IdxOnly

\* Lines 165-169: the initial upsert commits, the first progress message is
\* published and the run awaits get_filings.
RunUpsert(r) ==
    /\ pc[r] = "upsert"
    /\ SetStatus(r, UpdateStatus("indexing", 0, 0, NoError))
    /\ SetProgress(r, "starting")
    /\ pc' = [pc EXCEPT ![r] = "list"]
    /\ UNCHANGED <<filing_chunks, companies, indexing_locks, tk, rl>>
    /\ returned' = "none"
    /\ IdxOnly

\* Lines 169-206: get_filings returns; nothing to index ends the run on the
\* next _update_status, otherwise the run awaits the DELETE of step 3.
RunList(r, all_filings) ==
    /\ pc[r] = "list"
    /\ LET to_index == FilingsToIndex(all_filings) IN
       IF all_filings = <<>> \/ to_index = <<>>
       THEN /\ pc' = [pc EXCEPT ![r] = "nofilings"]
            /\ UNCHANGED <<rl, indexing_progress>>
       ELSE /\ pc' = [pc EXCEPT ![r] = "purge"]
            /\ rl' = [rl EXCEPT ![r].filings = to_index]
            /\ SetProgress(r, "found")
    /\ UNCHANGED <<filing_index_status, filing_chunks, companies,
                   indexing_locks, tk>>
    /\ returned' = "none"
    /\ IdxOnly

\* get_filings raises: the exception leaves index_company_filings through
\* `async with lock` and _run_indexing_background logs it.
RunListRaise(r) ==
    /\ pc[r] = "list"
    /\ Release(r)
    /\ Return(r, "raised")
    /\ UNCHANGED <<filing_index_status, filing_chunks, companies,
                   indexing_progress>>
    /\ IdxOnly

\* Lines 173-174 and 195-197: status error, return.
RunNoFilings(r) ==
    /\ pc[r] = "nofilings"
    /\ SetStatus(r, UpdateStatus("error", 0, 0, ErrorText("no_filings")))
    /\ Release(r)
    /\ Return(r, "no_filings")
    /\ UNCHANGED <<filing_chunks, companies, indexing_progress>>
    /\ IdxOnly

\* The run goes to the top of the loop at filing i; msg is the progress
\* message it published last.
Loop(r, i, errors, locals, msg) ==
    LET at == LoopFrom(rl[r].filings, i, errors) IN
    /\ pc' = [pc EXCEPT ![r] = at.pc]
    /\ rl' = [rl EXCEPT ![r] = [locals EXCEPT !.i = at.i, !.n = 0,
                                              !.topics_failed = FALSE,
                                              !.topics = 0,
                                              !.errors = at.errors]]
    /\ SetProgress(r, IF i <= Len(rl[r].filings) THEN "processing" ELSE msg)

\* Step 3 commits and the loop of step 4 starts.
RunPurge(r) ==
    /\ pc[r] = "purge"
    /\ filing_chunks' = [filing_chunks EXCEPT ![Row(r)] = <<>>]
    /\ Loop(r, 1, <<>>, rl[r], indexing_progress[Row(r)])
    /\ UNCHANGED <<filing_index_status, companies, indexing_locks, tk>>
    /\ returned' = "none"
    /\ IdxOnly

\* The accounting after _index_single_filing returned n chunks (lines
\* 236-248); the run awaits the _update_status of line 244.
Indexed(locals, n) ==
    [locals EXCEPT !.total_chunks = @ + n, !.filings_indexed = @ + 1,
                   !.indexed = @ \cup {locals.i}]

\* _resolve_filing_id returns; the run awaits fetch_filing_html.
RunFilingId(r) ==
    /\ pc[r] = "filing_id"
    /\ SetProgress(r, "fetching")
    /\ pc' = [pc EXCEPT ![r] = "fetch"]
    /\ UNCHANGED <<filing_index_status, filing_chunks, companies,
                   indexing_locks, tk, rl>>
    /\ returned' = "none"
    /\ IdxOnly

\* The HTML arrives and is parsed and chunked into n chunks (lines 313-323):
\* none ends the filing with 0 chunks, otherwise the run awaits the topics.
RunFetch(r, n) ==
    /\ pc[r] = "fetch"
    /\ IF n = 0
       THEN /\ pc' = [pc EXCEPT ![r] = "progress_update"]
            /\ rl' = [rl EXCEPT ![r] = Indexed(rl[r], 0)]
            /\ SetProgress(r, "parsing")
       ELSE /\ pc' = [pc EXCEPT ![r] = "topics"]
            /\ rl' = [rl EXCEPT ![r].n = n]
            /\ SetProgress(r, "topics")
    /\ UNCHANGED <<filing_index_status, filing_chunks, companies,
                   indexing_locks, tk>>
    /\ returned' = "none"
    /\ IdxOnly

\* What the completion call of extract_section_topics can do: raise, or
\* return a content that is not JSON, that is JSON but no array, or that is
\* an array with some number of non-empty phrases.
TopicResponses ==
    {[kind |-> k, phrases |-> 0] : k \in {"raised", "not_json", "not_list"}}
    \cup {[kind |-> "list", phrases |-> n] : n \in {3, topics_cap + 1}}

TopicFailure(response) == response.kind # "list"

\* extract_section_topics, as the number of phrases it returns: topics[:8]
\* of an array, [] after any failure (filing_topics.py lines 71-94).
ExtractSectionTopics(response) ==
    IF response.kind = "list"
    THEN (IF response.phrases > topics_cap THEN topics_cap
          ELSE response.phrases)
    ELSE 0

\* A topic extraction whose failure is a failure of the filing.
RunTopicsFailsFiling(r, response) ==
    /\ pc[r] = "topics"
    /\ IF TopicFailure(response)
       THEN LET after == [rl[r] EXCEPT !.errors = Append(@, rl[r].i)] IN
            Loop(r, after.i + 1, after.errors, after, indexing_progress[Row(r)])
       ELSE /\ pc' = [pc EXCEPT ![r] = "embed"]
            /\ rl' = [rl EXCEPT ![r].topics = ExtractSectionTopics(response)]
            /\ SetProgress(r, "embedding")
    /\ UNCHANGED <<filing_index_status, filing_chunks, companies,
                   indexing_locks, tk>>
    /\ returned' = "none"
    /\ IdxOnly

\* extract_section_topics returned for every section: the phrases, or the
\* empty list after a failure it swallowed (filing_topics.py lines 91-94).
RunTopics(r, response) ==
    /\ pc[r] = "topics"
    /\ pc' = [pc EXCEPT ![r] = "embed"]
    /\ rl' = [rl EXCEPT ![r].topics_failed = TopicFailure(response),
                        ![r].topics = ExtractSectionTopics(response)]
    /\ SetProgress(r, "embedding")
    /\ UNCHANGED <<filing_index_status, filing_chunks, companies,
                   indexing_locks, tk>>
    /\ returned' = "none"
    /\ IdxOnly

\* generate_embeddings returns; the run awaits the INSERTs and their commit.
RunEmbed(r) ==
    /\ pc[r] = "embed"
    /\ pc' = [pc EXCEPT ![r] = "persist"]
    /\ SetProgress(r, "inserting")
    /\ UNCHANGED <<filing_index_status, filing_chunks, companies,
                   indexing_locks, tk, rl>>
    /\ returned' = "none"
    /\ IdxOnly

\* The rows of filing i: one per chunk, chunk_index 0..n-1.
ChunkRows(i, n) == [k \in 1..n |-> <<i, k - 1>>]

\* The filing's single transaction commits (lines 350-388).
RunPersist(r) ==
    /\ pc[r] = "persist"
    /\ filing_chunks' =
          [filing_chunks EXCEPT ![Row(r)] = @ \o ChunkRows(rl[r].i, rl[r].n)]
    /\ pc' = [pc EXCEPT ![r] = "progress_update"]
    /\ rl' = [rl EXCEPT ![r] = Indexed(rl[r], rl[r].n)]
    /\ UNCHANGED <<filing_index_status, companies, indexing_locks,
                   indexing_progress, tk>>
    /\ returned' = "none"
    /\ IdxOnly

\* The _update_status of line 244 commits; on to the next filing.
RunProgressUpdate(r) ==
    /\ pc[r] = "progress_update"
    /\ SetStatus(r, UpdateStatus("indexing", rl[r].filings_indexed,
                                 rl[r].total_chunks, NoError))
    /\ Loop(r, rl[r].i + 1, rl[r].errors, rl[r], indexing_progress[Row(r)])
    /\ UNCHANGED <<filing_chunks, companies, indexing_locks, tk>>
    /\ returned' = "none"
    /\ IdxOnly

\* The calls awaited inside the try block of lines 228-254.
TryStages == {"filing_id", "fetch", "embed", "persist", "progress_update"}

\* What `except Exception` does with the locals (lines 250-254).
OnFilingError(locals) == [locals EXCEPT !.errors = Append(@, locals.i)]

\* Mutant of RunStageRaise: the exception ends the loop.
RunStageRaiseAborts(r) ==
    /\ pc[r] \in TryStages
    /\ pc' = [pc EXCEPT ![r] = "final"]
    /\ rl' = [rl EXCEPT ![r] = OnFilingError(rl[r])]
    /\ UNCHANGED <<filing_index_status, filing_chunks, companies,
                   indexing_locks, indexing_progress, tk>>
    /\ returned' = "none"
    /\ IdxOnly

\* An awaited call of the try block raises (at "fetch" also: the HTML
\* arrives and parse_filing_html or chunk_filing raises).
RunStageRaise(r) ==
    /\ pc[r] \in TryStages
    /\ LET after == OnFilingError(rl[r]) IN
       Loop(r, after.i + 1, after.errors, after, indexing_progress[Row(r)])
    /\ UNCHANGED <<filing_index_status, filing_chunks, companies,
                   indexing_locks, tk>>
    /\ returned' = "none"
    /\ IdxOnly

\* Step 5: the final _update_status commits, the progress slot is popped,
\* the summary is returned and the lock released (lines 256-287).
RunFinalize(r) ==
    /\ pc[r] = "final"
    /\ SetStatus(r, UpdateStatus(FinalStatus(rl[r].filings_indexed),
                                 rl[r].filings_indexed, rl[r].total_chunks,
                                 FinalError(rl[r].filings_indexed,
                                            rl[r].errors)))
    /\ SetProgress(r, "none")
    /\ Release(r)
    /\ Return(r, FinalStatus(rl[r].filings_indexed))
    /\ UNCHANGED <<filing_chunks, companies>>
    /\ IdxOnly

\* ================================================================ chunker
\* A text is its token stream under cl100k_base.  What the chunker can tell
\* of a token is whether it decodes to whitespace only, which str.strip()
\* removes at either end of a text.
Tokens == {"ws", "word"}

RECURSIVE SeqsUpTo(_, _)
SeqsUpTo(S, n) ==
    IF n = 0 THEN {<<>>}
    ELSE LET shorter == SeqsUpTo(S, n - 1)
         IN  shorter \cup {Append(s, x) : s \in {t \in shorter : Len(t) = n - 1},
                                          x \in S}

Texts == SeqsUpTo(Tokens, MaxTextLen)

\* A table is table_md; the chunker reads only count_tokens(table_md) and
\* never compares it with max_tokens, so every table is taken above any
\* max_tokens, where splitting would show.
TableSizes == {MaxWindow + 1}
TableLists == SeqsUpTo(TableSizes, MaxTables)

\* section_name and category of the sections of a 10-K, in document order.
SectionNames == <<"Item 1 - Business", "Item 1A - Risk Factors">>

Category(section_name) ==
    CASE section_name = "Item 1 - Business" -> "business_overview"
      [] section_name = "Item 1A - Risk Factors" -> "risk_factors"
      [] OTHER -> "other"

NoSection == [section_name |-> "", text_content |-> <<>>, tables |-> <<>>]

\* tokens[a:b] of Python as the positions it selects, 1-based: a negative
\* bound counts from the end, and both are clamped to 0..len.
PyBound(x, len) ==
    IF x < 0 THEN (IF x + len < 0 THEN 0 ELSE x + len)
    ELSE (IF x > len THEN len ELSE x)

PySlice(len, a, b) == (PyBound(a, len) + 1)..PyBound(b, len)

\* str.strip() on the decoding of the tokens at positions P of text: the
\* positions from the first to the last token that is not whitespace.
Min(S) == CHOOSE x \in S : \A y \in S : x <= y
Max(S) == CHOOSE x \in S : \A y \in S : x >= y

Strip(text, P) ==
    LET inked == {k \in P : text[k] # "ws"}
    IN  IF inked = {} THEN {} ELSE Min(inked)..Max(inked)

\* Mutant of Chunk: the category of the section is not carried over.
ChunkUncategorised(text, token_count, section_name, is_table, chunk_index) ==
    [text |-> text, token_count |-> token_count,
     section_name |-> section_name, category |-> "general",
     is_table |-> is_table, chunk_index |-> chunk_index]

\* Chunk(...).  text is held by reference: the positions of the section's
\* token stream it decodes, or the number of the table it is.
Chunk(text, token_count, section_name, is_table, chunk_index) ==
    [text |-> text, token_count |-> token_count,
     section_name |-> section_name, category |-> Category(section_name),
     is_table |-> is_table, chunk_index |-> chunk_index]

\* Mutant of TextChunks: the position index restarts in every section.
TextChunksPerSection(windows, section_name, idx) ==
    [k \in 1..Len(windows) |->
        Chunk(windows[k].text, windows[k].token_count, section_name, FALSE,
              k - 1)]

\* The while loop of _split_text_by_tokens as a function: the <<start, end>>
\* of the windows it cuts from `total` tokens, from `start` on.
RECURSIVE WindowBounds(_, _, _, _)
WindowBounds(start, total, max_tokens, overlap_tokens) ==
    IF start < total
    THEN LET end == IF start + max_tokens < total
                    THEN start + max_tokens ELSE total
         IN  <<<<start, end>>>>
             \o WindowBounds(start + max_tokens - overlap_tokens, total,
                             max_tokens, overlap_tokens)
    ELSE <<>>

\* The loops of chunk_filing over text_chunks and over section.tables.
TextChunks(windows, section_name, idx) ==
    [k \in 1..Len(windows) |->
        Chunk(windows[k].text, windows[k].token_count, section_name, FALSE,
              idx + k - 1)]

\* Mutant of TableChunks: the last table of a section gets no chunk.
TableChunksButLast(tables, section_name, idx) ==
    [k \in 1..(Len(tables) - 1) |->
        Chunk([table |-> k], tables[k], section_name, TRUE, idx + k - 1)]

TableChunks(tables, section_name, idx) ==
    [k \in 1..Len(tables) |->
        Chunk([table |-> k], tables[k], section_name, TRUE, idx + k - 1)]

ChunkIdle ==
    /\ ck_pc = "off"
    /\ ck_max = 1
    /\ ck_overlap = 0
    /\ ck_left = <<>>
    /\ ck_section = NoSection
    /\ ck_start = 0
    /\ ck_windows = <<>>
    /\ ck_chunks = <<>>
    /\ ck_idx = 0
    /\ ck_seen = <<>>

\* chunk_filing(parsed, max_tokens, overlap) is called: chunks = [], idx = 0.
\* The arguments are any positive max_tokens and any overlap up to the
\* largest max_tokens, so below, at and above max_tokens.
ChunkInit ==
    /\ ck_pc = "section"
    /\ ck_max \in 1..MaxWindow
    /\ ck_overlap \in 0..MaxWindow
    /\ ck_left \in {SubSeq(SectionNames, 1, n) : n \in 0..Len(SectionNames)}
    /\ ck_section = NoSection
    /\ ck_start = 0
    /\ ck_windows = <<>>
    /\ ck_chunks = <<>>
    /\ ck_idx = 0
    /\ ck_seen = <<>>

ChunkOnly == UNCHANGED <<idxVars, chatVars, parseVars, searchVars>>

\* The section's tables become one chunk each, and the for loop goes on.
AfterText(section, chunks, idx) ==
    /\ ck_chunks' = chunks \o TableChunks(section.tables, section.section_name, idx)
    /\ ck_idx' = idx + Len(section.tables)
    /\ ck_pc' = "section"
    /\ ck_section' = NoSection
    /\ ck_start' = 0
    /\ ck_windows' = <<>>

\* for section in parsed.sections: the next section, with any text and any
\* tables.  Blank text gives no text chunk; text of at most max_tokens tokens
\* is returned whole; longer text enters the while loop with start = 0.
ChunkSection(text_content, tables) ==
    /\ ck_pc = "section"
    /\ ck_left # <<>>
    /\ ck_left' = Tail(ck_left)
    /\ ck_seen' = Append(ck_seen, [section_name |-> Head(ck_left),
                                   category |-> Category(Head(ck_left)),
                                   tables |-> tables])
    /\ LET name == Head(ck_left)
           section == [section_name |-> name, text_content |-> text_content,
                       tables |-> tables]
           total == Len(text_content)
       IN  IF Strip(text_content, 1..total) = {}
           THEN AfterText(section, ck_chunks, ck_idx)
           ELSE IF total <= ck_max
           THEN AfterText(section,
                          ck_chunks \o TextChunks(
                              <<[text |-> 1..total, token_count |-> total]>>,
                              name, ck_idx),
                          ck_idx + 1)
           ELSE /\ ck_pc' = "split"
                /\ ck_section' = section
                /\ ck_start' = 0
                /\ ck_windows' = <<>>
                /\ UNCHANGED <<ck_chunks, ck_idx>>
    /\ UNCHANGED <<ck_max, ck_overlap>>
    /\ ChunkOnly

\* One iteration of the while loop of _split_text_by_tokens: the window
\* tokens[start:end] is kept unless it strips to nothing, and start moves by
\* max_tokens - overlap_tokens.  A loop that does not end is followed until
\* it has kept MaxTextLen + 1 windows, more than any advancing loop over
\* MaxTextLen tokens keeps, or has moved start below -MaxTextLen, from where
\* on every window is empty.
SplitIteration ==
    /\ ck_pc = "split"
    /\ LET text == ck_section.text_content
           total == Len(text)
           end == IF ck_start + ck_max < total THEN ck_start + ck_max ELSE total
           chunk_tokens == PySlice(total, ck_start, end)
           chunk_text == Strip(text, chunk_tokens)
       IN  /\ ck_start < total
           /\ Len(ck_windows) <= MaxTextLen
           /\ ck_start >= -MaxTextLen
           /\ ck_windows' =
                  IF chunk_text # {}
                  THEN Append(ck_windows,
                              [text |-> chunk_text,
                               token_count |-> Cardinality(chunk_tokens)])
                  ELSE ck_windows
           /\ ck_start' = ck_start + ck_max - ck_overlap
    /\ UNCHANGED <<ck_pc, ck_max, ck_overlap, ck_left, ck_section, ck_chunks,
                   ck_idx, ck_seen>>
    /\ ChunkOnly

\* start >= total: _split_text_by_tokens returns its chunks, chunk_filing
\* appends them and then the section's tables.
SplitReturn ==
    /\ ck_pc = "split"
    /\ ck_start >= Len(ck_section.text_content)
    /\ AfterText(ck_section,
                 ck_chunks \o TextChunks(ck_windows, ck_section.section_name,
                                         ck_idx),
                 ck_idx + Len(ck_windows))
    /\ UNCHANGED <<ck_max, ck_overlap, ck_left, ck_seen>>
    /\ ChunkOnly

\* The for loop is over: chunk_filing returns chunks.
ChunkReturn ==
    /\ ck_pc = "section"
    /\ ck_left = <<>>
    /\ ck_pc' = "returned"
    /\ UNCHANGED <<ck_max, ck_overlap, ck_left, ck_section, ck_start,
                   ck_windows, ck_chunks, ck_idx, ck_seen>>
    /\ ChunkOnly

\* ================================================================= parser
\* parse_filing_html (filing_parser.py) from the cleaned text on.  The cleaned
\* text is a sequence of blocks: an item header line "Item <code>", the text
\* that follows it up to the next header, and in it at most one placeholder
\* of a table kept by table extraction.  Table k is the table of block k.
FilingTypes == {"10-K", "10-Q", "8-K", "S-1"}

\* The item codes _ITEM_PATTERN captures in the documents of a type: two of
\* the type's own taxonomy as the documents print them, and one foreign to
\* it.
DocCodes(filing_type) ==
    CASE filing_type = "8-K" -> {"2.02", "5.02", "1A"}
      [] OTHER -> {"1", "1A", "2.02"}

\* Text lengths on either side of the minimum: a long text is kept on its
\* own, a short one is below the minimum alone and at it with a placeholder.
LongLen == min_section_len
ShortLen == min_section_len - placeholder_len - 1

Blocks(filing_type) ==
    [item : DocCodes(filing_type), len : {ShortLen, LongLen}, table : BOOLEAN]

CleanTexts(filing_type) == SeqsUpTo(Blocks(filing_type), MaxBlocks)

\* SECTIONS_10K, SECTIONS_10Q, SECTIONS_8K: the entries for the codes above.
SECTIONS_10K ==
    [code \in {"1", "1A"} |->
        IF code = "1"
        THEN [name |-> "Item 1 - Business", category |-> "business_overview"]
        ELSE [name |-> "Item 1A - Risk Factors", category |-> "risk_factors"]]

SECTIONS_10Q ==
    [code \in {"P1-1", "P2-1A"} |->
        IF code = "P1-1"
        THEN [name |-> "Part I Item 1 - Financial Statements",
              category |-> "financial_statements"]
        ELSE [name |-> "Part II Item 1A - Risk Factors",
              category |-> "risk_factors"]]

SECTIONS_8K ==
    [code \in {"2.02", "5.02"} |->
        IF code = "2.02"
        THEN [name |-> "Item 2.02 - Earnings Results",
              category |-> "financial_discussion"]
        ELSE [name |-> "Item 5.02 - Officer/Director Changes",
              category |-> "corporate_governance"]]

\* _get_section_map
GetSectionMap(filing_type) ==
    CASE filing_type = "10-K" -> SECTIONS_10K
      [] filing_type = "10-Q" -> SECTIONS_10Q
      [] filing_type = "8-K" -> SECTIONS_8K
      [] OTHER -> [code \in {} |-> [name |-> "", category |-> ""]]

\* len("Item " + code)
HeaderLen(code) ==
    CASE code = "1" -> 6
      [] code = "1A" -> 7
      [] OTHER -> 9

\* The characters of a block after its header, and of the header too.
BodyLen(block) ==
    block.len + (IF block.table THEN 1 + placeholder_len ELSE 0)

\* The characters of the blocks lo..hi, each with its header line.
RECURSIVE BlocksLen(_, _, _)
BlocksLen(text, lo, hi) ==
    IF lo > hi THEN 0
    ELSE 1 + HeaderLen(text[lo].item) + 1 + BodyLen(text[lo])
         + BlocksLen(text, lo + 1, hi)

\* len(text[start:end].strip()) for the section that starts after the header
\* of block first and ends before the header of block last + 1.
SpanLen(text, first, last) ==
    BodyLen(text[first]) + BlocksLen(text, first + 1, last)

\* tables_md: the indices of the kept tables, in insertion order.
TablesMd(text) == {k \in 1..Len(text) : text[k].table}

\* The tables of a set of indices as a list in the order of tables_md.
RECURSIVE InOrder(_)
InOrder(S) == IF S = {} THEN <<>> ELSE <<Min(S)>> \o InOrder(S \ {Min(S)})

\* The first match of a code, which seen_items overwrites.
FirstOccurrence(text, code) ==
    Min({k \in 1..Len(text) : text[k].item = code})

\* seen_items[item_num] = m over all matches: the last match of each code.
LastOccurrence(text, code) ==
    Max({k \in 1..Len(text) : text[k].item = code})

\* unique_matches: the kept matches, sorted by position.
UniqueMatches(text) ==
    InOrder({LastOccurrence(text, text[k].item) : k \in 1..Len(text)})

ParsedSection(section_id, info, text_len, placeholders, tables, first, last) ==
    [section_id |-> section_id, section_name |-> info.name,
     category |-> info.category,
     text_len |-> text_len,            \* len(text_content)
     placeholders |-> placeholders,    \* placeholders still in text_content
     tables |-> tables,
     first |-> first, last |-> last]   \* the blocks text_content spans

\* if len(section_text) < 50: the test of one iteration of the loop of
\* _detect_sections, on section_text as cut from the text, placeholders
\* included.
TooShort(text, first, last) == SpanLen(text, first, last) < min_section_len

\* The loop of _detect_sections from unique_matches[i] on.
RECURSIVE SectionsFrom(_, _, _, _)
SectionsFrom(text, section_map, unique_matches, i) ==
    IF i > Len(unique_matches) THEN <<>>
    ELSE LET first == unique_matches[i]
             item_num == text[first].item
             last == IF i + 1 <= Len(unique_matches)
                     THEN unique_matches[i + 1] - 1 ELSE Len(text)
             rest == SectionsFrom(text, section_map, unique_matches, i + 1)
             section_tables == {k \in TablesMd(text) : first <= k /\ k <= last}
         IN  IF item_num \notin DOMAIN section_map THEN rest
             ELSE IF TooShort(text, first, last) THEN rest
             ELSE <<ParsedSection(
                        item_num, section_map[item_num],
                        SpanLen(text, first, last)
                            - Cardinality(section_tables) * (1 + placeholder_len),
                        {}, InOrder(section_tables), first, last)>> \o rest

\* _detect_sections
DetectSections(text, section_map) ==
    IF DOMAIN section_map = {} THEN <<>>
    ELSE IF text = <<>> THEN <<>>
    ELSE SectionsFrom(text, section_map, UniqueMatches(text), 1)


\* A sectioned result from a single detected section.
IsSectionedFromOne(sections) == Len(sections) >= 1

\* if len(sections) >= 2
IsSectioned(sections) == Len(sections) >= min_sections

\* fallback_section: the whole cleaned text, placeholders left in it, with
\* every table of tables_md.
FallbackSection(text) ==
    ParsedSection("full_document",
                  [name |-> "Full Document", category |-> "general"],
                  IF text = <<>> THEN 0
                  ELSE HeaderLen(text[1].item) + 1 + SpanLen(text, 1, Len(text)),
                  TablesMd(text), InOrder(TablesMd(text)), 1, Len(text))

\* parse_filing_html after section detection.
ParsedFiling(filing_type, text, sections) ==
    IF IsSectioned(sections)
    THEN [filing_type |-> filing_type, sections |-> sections,
          parse_quality |-> "sectioned"]
    ELSE [filing_type |-> filing_type, sections |-> <<FallbackSection(text)>>,
          parse_quality |-> "fallback"]

NoParsed == [filing_type |-> "", sections |-> <<>>, parse_quality |-> ""]

ParseIdle ==
    /\ pa_pc = "off"
    /\ pa_filing_type = ""
    /\ pa_text = <<>>
    /\ pa_sections = <<>>
    /\ pa_parsed = NoParsed

\* parse_filing_html(html, filing_type) has cleaned the text of any document
\* of any type.
ParseInit ==
    /\ pa_pc = "detect"
    /\ pa_filing_type \in FilingTypes
    /\ pa_text \in CleanTexts(pa_filing_type)
    /\ pa_sections = <<>>
    /\ pa_parsed = NoParsed

ParseOnly == UNCHANGED <<idxVars, chunkVars, chatVars, searchVars>>

\* Step 3: sections = _detect_sections(clean_text, ...)
ParseDetect ==
    /\ pa_pc = "detect"
    /\ pa_sections' = DetectSections(pa_text, GetSectionMap(pa_filing_type))
    /\ pa_pc' = "return"
    /\ UNCHANGED <<pa_filing_type, pa_text, pa_parsed>>
    /\ ParseOnly

\* The sectioned or the fallback ParsedFiling is returned.
ParseReturn ==
    /\ pa_pc = "return"
    /\ pa_parsed' = ParsedFiling(pa_filing_type, pa_text, pa_sections)
    /\ pa_pc' = "returned"
    /\ UNCHANGED <<pa_filing_type, pa_text, pa_sections>>
    /\ ParseOnly

\* ========================================================== vector search
\* search_filing_chunks (vector_search.py).  The rows of filing_chunks are
\* held in the order of their distance to the query embedding, nearest
\* first; a row carries its rank, whether it passes the WHERE clause (ticker
\* and the optional filters), and its token_count column, <<>> for NULL.
TokenCounts == {<<>>} \cup {<<n>> : n \in 1..MaxCount}

RowKinds == [matches : BOOLEAN, token_count : TokenCounts]

RECURSIVE Ranked(_, _)
Ranked(kinds, rank) ==
    IF kinds = <<>> THEN <<>>
    ELSE <<[rank |-> rank, matches |-> Head(kinds).matches,
            token_count |-> Head(kinds).token_count]>>
         \o Ranked(Tail(kinds), rank + 1)

Stores == {Ranked(kinds, 1) : kinds \in SeqsUpTo(RowKinds, MaxRows)}

\* row["token_count"] or 0
OrZero(token_count) == IF token_count = <<>> THEN 0 ELSE token_count[1]

\* SELECT ... WHERE ... ORDER BY embedding <=> :query_embedding LIMIT n
Select(store, fetch_limit) ==
    LET matching == SelectSeq(store, LAMBDA row : row.matches)
    IN  SubSeq(matching, 1, Min({Len(matching), fetch_limit}))

SearchResult(row) == [rank |-> row.rank, token_count |-> OrZero(row.token_count)]

\* The loop without the exemption of the first result from the budget.
RECURSIVE AccumulateWithinBudget(_, _, _, _, _)
AccumulateWithinBudget(rows, top_k, max_tokens, results, cumulative_tokens) ==
    IF rows = <<>> THEN results
    ELSE LET tokens == OrZero(Head(rows).token_count) IN
         IF cumulative_tokens + tokens > max_tokens THEN results
         ELSE IF Len(results) + 1 >= top_k
              THEN Append(results, SearchResult(Head(rows)))
              ELSE AccumulateWithinBudget(
                      Tail(rows), top_k, max_tokens,
                      Append(results, SearchResult(Head(rows))),
                      cumulative_tokens + tokens)

\* The loop with continue in place of break: a row over the budget is
\* skipped and later rows are still tried.
RECURSIVE AccumulateSkipping(_, _, _, _, _)
AccumulateSkipping(rows, top_k, max_tokens, results, cumulative_tokens) ==
    IF rows = <<>> THEN results
    ELSE LET tokens == OrZero(Head(rows).token_count) IN
         IF cumulative_tokens + tokens > max_tokens /\ results # <<>>
         THEN AccumulateSkipping(Tail(rows), top_k, max_tokens, results,
                                 cumulative_tokens)
         ELSE IF Len(results) + 1 >= top_k
              THEN Append(results, SearchResult(Head(rows)))
              ELSE AccumulateSkipping(
                      Tail(rows), top_k, max_tokens,
                      Append(results, SearchResult(Head(rows))),
                      cumulative_tokens + tokens)

\* for row in rows: ... the results accumulated within the token budget.
RECURSIVE AccumulateResults(_, _, _, _, _)
AccumulateResults(rows, top_k, max_tokens, results, cumulative_tokens) ==
    IF rows = <<>> THEN results
    ELSE LET tokens == OrZero(Head(rows).token_count) IN
         IF cumulative_tokens + tokens > max_tokens /\ results # <<>>
         THEN results
         ELSE IF Len(results) + 1 >= top_k
              THEN Append(results, SearchResult(Head(rows)))
              ELSE AccumulateResults(
                      Tail(rows), top_k, max_tokens,
                      Append(results, SearchResult(Head(rows))),
                      cumulative_tokens + tokens)

SearchIdle ==
    /\ vs_pc = "off"
    /\ vs_store = <<>>
    /\ vs_top_k = 0
    /\ vs_max_tokens = 0
    /\ vs_rows = <<>>
    /\ vs_results = <<>>

\* search_filing_chunks(db, ticker, query_text, top_k, max_tokens, ...) is
\* called and awaits the embedding of the query.
SearchInit ==
    /\ vs_pc = "embed"
    /\ vs_store \in Stores
    /\ vs_top_k \in 1..MaxTopK
    /\ vs_max_tokens \in 0..MaxBudget
    /\ vs_rows = <<>>
    /\ vs_results = <<>>

SearchOnly == UNCHANGED <<idxVars, chunkVars, chatVars, parseVars>>

\* generate_single_embedding returns; the query is sent.
SearchEmbed ==
    /\ vs_pc = "embed"
    /\ vs_pc' = "execute"
    /\ UNCHANGED <<vs_store, vs_top_k, vs_max_tokens, vs_rows, vs_results>>
    /\ SearchOnly

\* generate_single_embedding raises.
SearchEmbedRaise ==
    /\ vs_pc = "embed"
    /\ vs_pc' = "embedding_raised"
    /\ UNCHANGED <<vs_store, vs_top_k, vs_max_tokens, vs_rows, vs_results>>
    /\ SearchOnly

\* db.execute returns the rows; the loop runs and the results are returned.
SearchExecute ==
    /\ vs_pc = "execute"
    /\ vs_rows' = Select(vs_store, vs_top_k * 2)
    /\ vs_results' = AccumulateResults(vs_rows', vs_top_k, vs_max_tokens, <<>>, 0)
    /\ vs_pc' = "returned"
    /\ UNCHANGED <<vs_store, vs_top_k, vs_max_tokens>>
    /\ SearchOnly

\* db.execute raises.
SearchExecuteRaise ==
    /\ vs_pc = "execute"
    /\ vs_pc' = "query_raised"
    /\ UNCHANGED <<vs_store, vs_top_k, vs_max_tokens, vs_rows, vs_results>>
    /\ SearchOnly

\* ========================================================== agentic loop
\* stream_chat_response_with_tools (ai_service.py) under event_stream
\* (api/ai.py), one chat turn.
Ids == <<"", "call_a", "call_b">>       \* tool call ids, in str order
Indexes == {0, 1}                       \* tc_delta.index

\* What one chunk of a completion stream can carry.  The loop body handles
\* finish_reason, content and tool_calls one after the other and each on its
\* own, so a chunk carrying several of them acts as that many chunks.
StreamChunks ==
    {[kind |-> "content"]}
    \cup {[kind |-> "finish", finish_reason |-> f] : f \in {"stop", "tool_calls"}}
    \cup {[kind |-> "tool_call", index |-> i, id |-> Ids[d]] :
              i \in Indexes, d \in DOMAIN Ids}

\* A message of full_messages.  content is "" when the key is absent, and
\* otherwise says what the text is, not the text.
Message(role, content, tool_calls, tool_call_id) ==
    [role |-> role, content |-> content, tool_calls |-> tool_calls,
     tool_call_id |-> tool_call_id]

\* sorted(tool_calls_by_index.values(), key=lambda t: t["id"]): by id, and
\* among equal ids in the order the dict first saw their index.
SortedById(calls) ==
    LET WithId(d) == SelectSeq(calls, LAMBDA t : t.id = Ids[d])
        RECURSIVE Upto(_)
        Upto(d) == IF d = 0 THEN <<>> ELSE Upto(d - 1) \o WithId(d)
    IN  Upto(Len(Ids))

ChatIdle ==
    /\ ch_pc = "off"
    /\ ch_max_iterations = 0
    /\ ch_iteration = 0
    /\ ch_full_messages = <<>>
    /\ ch_content_parts = 0
    /\ ch_tool_calls_by_index = <<>>
    /\ ch_finish_reason = "None"
    /\ ch_todo = <<>>
    /\ ch_calls = <<>>
    /\ ch_events = <<>>

\* The generator is started: full_messages = [system, *messages], and either
\* the first iteration's completion call or, with range(0), the final one.
ChatInit ==
    /\ ch_max_iterations \in 0..MaxToolIterations
    /\ ch_pc = IF ch_max_iterations > 0 THEN "create" ELSE "final_create"
    /\ ch_iteration = 0
    /\ ch_full_messages = <<Message("system", "system_prompt", <<>>, ""),
                            Message("user", "question", <<>>, "")>>
    /\ ch_content_parts = 0
    /\ ch_tool_calls_by_index = <<>>
    /\ ch_finish_reason = "None"
    /\ ch_todo = <<>>
    /\ ch_calls = <<>>
    /\ ch_events = <<>>

ChatOnly == UNCHANGED <<idxVars, chunkVars, parseVars, searchVars>>

Yield(event) == ch_events' = Append(ch_events, event)

TokensSent == Cardinality({k \in DOMAIN ch_events : ch_events[k] = "token"})

\* The generator returns or raises: its frame is gone, and what stays is
\* what it has sent and what it has asked of the provider.
ChatOver(how) ==
    /\ ch_pc' = how
    /\ ch_content_parts' = 0
    /\ ch_tool_calls_by_index' = <<>>
    /\ ch_finish_reason' = "None"
    /\ ch_todo' = <<>>

\* client.chat.completions.create(..., tools=tools, stream=True) returns the
\* stream of an iteration.
\* stream, and whether the call carried tools=tools: in an iteration it
\* does, after the loop it does not.
ChatCallWithTools ==
    ch_calls' = Append(ch_calls, [tools |-> TRUE])

ChatCall ==
    ch_calls' = Append(ch_calls, [tools |-> ch_pc = "create"])

ChatCreate ==
    /\ ch_pc \in {"create", "final_create"}
    /\ ChatCall
    /\ ch_pc' = IF ch_pc = "create" THEN "stream" ELSE "final_stream"
    /\ UNCHANGED <<ch_max_iterations, ch_iteration, ch_full_messages,
                   ch_content_parts, ch_tool_calls_by_index, ch_finish_reason,
                   ch_todo, ch_events>>
    /\ ChatOnly

\* An event_stream that swallows the exception without an error event.
ChatRaiseSilent ==
    /\ ch_pc \in {"create", "final_create", "stream", "final_stream"}
    /\ IF ch_pc \in {"create", "final_create"}
       THEN ChatCall
       ELSE UNCHANGED ch_calls
    /\ ChatOver("raised")
    /\ UNCHANGED <<ch_max_iterations, ch_iteration, ch_full_messages,
                   ch_events>>
    /\ ChatOnly

\* A completion call, or reading its stream, raises: nothing in the generator
\* catches it, event_stream does and emits the error event.
ChatRaise ==
    /\ ch_pc \in {"create", "final_create", "stream", "final_stream"}
    /\ IF ch_pc \in {"create", "final_create"}
       THEN ChatCall
       ELSE UNCHANGED ch_calls
    /\ ChatOver("raised")
    /\ Yield("error")
    /\ UNCHANGED <<ch_max_iterations, ch_iteration, ch_full_messages>>
    /\ ChatOnly

\* tool_calls_by_index after one tc_delta: a new index gets an entry with id
\* "", and a delta that has an id sets it.
Accumulate(calls, index, id) ==
    LET known == \E k \in 1..Len(calls) : calls[k].index = index
        all == IF known THEN calls
               ELSE Append(calls, [index |-> index, id |-> ""])
    IN  [k \in 1..Len(all) |->
            IF all[k].index = index /\ id # ""
            THEN [all[k] EXCEPT !.id = id] ELSE all[k]]

\* async for chunk in stream, in an iteration: one chunk.
ChatChunk(chunk) ==
    /\ ch_pc = "stream"
    /\ chunk.kind = "content" => TokensSent < MaxTokens
    /\ ch_finish_reason' =
           IF chunk.kind = "finish" THEN chunk.finish_reason
           ELSE ch_finish_reason
    /\ IF chunk.kind = "content"
       THEN /\ ch_content_parts' = ch_content_parts + 1
            /\ Yield("token")
       ELSE UNCHANGED <<ch_content_parts, ch_events>>
    /\ ch_tool_calls_by_index' =
           IF chunk.kind = "tool_call"
           THEN Accumulate(ch_tool_calls_by_index, chunk.index, chunk.id)
           ELSE ch_tool_calls_by_index
    /\ UNCHANGED <<ch_pc, ch_max_iterations, ch_iteration, ch_full_messages,
                   ch_todo, ch_calls>>
    /\ ChatOnly

\* The code between two awaits of the tool loop: the status event of the next
\* tool call, or, after the last one, the next iteration or the final call.
\* content_parts, tool_calls_by_index and finish_reason are not read between
\* the building of assistant_msg and their reset at the top of the loop, and
\* hold the reset values from the former on.
NextTool(todo, iteration, messages) ==
    /\ ch_full_messages' = messages
    /\ ch_todo' = todo
    /\ ch_content_parts' = 0
    /\ ch_tool_calls_by_index' = <<>>
    /\ ch_finish_reason' = "None"
    /\ IF todo # <<>>
       THEN /\ Yield("status")
            /\ ch_pc' = "tool"
            /\ UNCHANGED ch_iteration
       ELSE /\ ch_iteration' = iteration + 1
            /\ ch_pc' = IF iteration + 1 < ch_max_iterations
                        THEN "create" ELSE "final_create"
            /\ UNCHANGED ch_events

\* A stream end that runs the tools whenever fragments were received,
\* whatever the finish reason.
ChatStreamEndAnyReason ==
    /\ ch_pc = "stream"
    /\ IF ch_tool_calls_by_index = <<>>
       THEN /\ Yield("done")
            /\ ChatOver("returned")
            /\ UNCHANGED <<ch_iteration, ch_full_messages, ch_calls>>
       ELSE LET tool_calls == SortedById(ch_tool_calls_by_index)
                assistant_msg == Message("assistant",
                                         IF ch_content_parts > 0
                                         THEN "answer" ELSE "",
                                         tool_calls, "")
            IN  /\ NextTool(tool_calls, ch_iteration,
                            Append(ch_full_messages, assistant_msg))
                /\ UNCHANGED ch_calls
    /\ UNCHANGED ch_max_iterations
    /\ ChatOnly

\* The stream of an iteration ends.  Without a tool request the turn is done;
\* with one the assistant message is appended and its calls run in turn.
ChatStreamEnd ==
    /\ ch_pc = "stream"
    /\ IF ch_finish_reason # "tool_calls" \/ ch_tool_calls_by_index = <<>>
       THEN /\ Yield("done")
            /\ ChatOver("returned")
            /\ UNCHANGED <<ch_iteration, ch_full_messages, ch_calls>>
       ELSE LET tool_calls == SortedById(ch_tool_calls_by_index)
                assistant_msg == Message("assistant",
                                         IF ch_content_parts > 0
                                         THEN "answer" ELSE "",
                                         tool_calls, "")
            IN  /\ NextTool(tool_calls, ch_iteration,
                            Append(ch_full_messages, assistant_msg))
                /\ UNCHANGED ch_calls
    /\ UNCHANGED ch_max_iterations
    /\ ChatOnly

\* A tool executor whose exception is not caught: it ends the turn as a
\* failed completion call does.
ChatToolAborts(raised) ==
    /\ ch_pc = "tool"
    /\ IF raised
       THEN /\ ChatOver("raised")
            /\ Yield("error")
            /\ UNCHANGED <<ch_iteration, ch_full_messages>>
       ELSE NextTool(Tail(ch_todo), ch_iteration,
                     Append(ch_full_messages,
                            Message("tool", "result", <<>>, Head(ch_todo).id)))
    /\ UNCHANGED <<ch_max_iterations, ch_calls>>
    /\ ChatOnly

\* A tool step that appends no message for a call whose executor raised.
ChatToolDropsFailed(raised) ==
    /\ ch_pc = "tool"
    /\ NextTool(Tail(ch_todo), ch_iteration,
                IF raised THEN ch_full_messages
                ELSE Append(ch_full_messages,
                            Message("tool", "result", <<>>, Head(ch_todo).id)))
    /\ UNCHANGED <<ch_max_iterations, ch_calls>>
    /\ ChatOnly

\* tool_executor returns or raises: either way a tool message with the call's
\* id is appended.
ChatTool(raised) ==
    /\ ch_pc = "tool"
    /\ NextTool(Tail(ch_todo), ch_iteration,
                Append(ch_full_messages,
                       Message("tool",
                               IF raised THEN "Error executing" ELSE "result",
                               <<>>, Head(ch_todo).id)))
    /\ UNCHANGED <<ch_max_iterations, ch_calls>>
    /\ ChatOnly

\* async for chunk in stream, after the loop: only content is read.
ChatFinalChunk(chunk) ==
    /\ ch_pc = "final_stream"
    /\ chunk.kind = "content" => TokensSent < MaxTokens
    /\ IF chunk.kind = "content"
       THEN Yield("token")
       ELSE UNCHANGED ch_events
    /\ UNCHANGED <<ch_pc, ch_max_iterations, ch_iteration, ch_full_messages,
                   ch_content_parts, ch_tool_calls_by_index, ch_finish_reason,
                   ch_todo, ch_calls>>
    /\ ChatOnly

\* The final stream ends.
ChatFinalEnd ==
    /\ ch_pc = "final_stream"
    /\ Yield("done")
    /\ ChatOver("returned")
    /\ UNCHANGED <<ch_max_iterations, ch_iteration, ch_full_messages,
                   ch_calls>>
    /\ ChatOnly

\* ------------------------------------------------------------- the system
Init == IdxInit /\ ChunkIdle /\ ChatIdle /\ ParseIdle /\ SearchIdle

Next ==
    \E r \in Tasks :
        \/ \E ticker \in RawTickers : TriggerCheck(r, ticker)
        \/ TriggerWrite(r)
        \/ \E ticker \in RawTickers : RemoveIndex(r, ticker)
        \/ RunConflict(r)
        \/ RunAcquire(r)
        \/ RunResolve(r)
        \/ RunLookupFound(r)
        \/ RunLookupNone(r)
        \/ RunCompanyNotFound(r)
        \/ RunUpsert(r)
        \/ \E all_filings \in Listings : RunList(r, all_filings)
        \/ RunListRaise(r)
        \/ RunNoFilings(r)
        \/ RunPurge(r)
        \/ RunFilingId(r)
        \/ \E n \in 0..MaxChunks : RunFetch(r, n)
        \/ \E response \in TopicResponses : RunTopics(r, response)
        \/ RunEmbed(r)
        \/ RunPersist(r)
        \/ RunProgressUpdate(r)
        \/ RunStageRaise(r)
        \/ RunFinalize(r)

Spec == Init /\ [][Next]_vars

\* One call of chunk_filing on any parsed document with any arguments.
InitChunk == IdxInit /\ ChunkInit /\ ChatIdle /\ ParseIdle /\ SearchIdle

NextChunk ==
    \/ \E text_content \in Texts, tables \in TableLists :
            ChunkSection(text_content, tables)
    \/ SplitIteration
    \/ SplitReturn
    \/ ChunkReturn

SpecChunk == InitChunk /\ [][NextChunk]_vars

\* One call of parse_filing_html on any cleaned text of any filing type.
InitParse == IdxInit /\ ChunkIdle /\ ChatIdle /\ ParseInit /\ SearchIdle

NextParse ==
    \/ ParseDetect
    \/ ParseReturn

SpecParse == InitParse /\ [][NextParse]_vars

\* One call of search_filing_chunks on any store, cap and budget.
InitSearch == IdxInit /\ ChunkIdle /\ ChatIdle /\ ParseIdle /\ SearchInit

NextSearch ==
    \/ SearchEmbed
    \/ SearchEmbedRaise
    \/ SearchExecute
    \/ SearchExecuteRaise

SpecSearch == InitSearch /\ [][NextSearch]_vars

\* One chat turn in agentic mode, with any provider and any tool executor.
\* Every awaited call returns or raises and every stream ends: a stream may
\* send any number of chunks, but not chunks for ever.
InitChat == IdxInit /\ ChunkIdle /\ ChatInit /\ ParseIdle /\ SearchIdle

NextChat ==
    \/ ChatCreate
    \/ ChatRaise
    \/ \E chunk \in StreamChunks : ChatChunk(chunk)
    \/ ChatStreamEnd
    \/ \E raised \in BOOLEAN : ChatTool(raised)
    \/ \E chunk \in StreamChunks : ChatFinalChunk(chunk)
    \/ ChatFinalEnd

ChatProgress ==
    \/ ChatCreate
    \/ ChatRaise
    \/ ChatStreamEnd
    \/ \E raised \in BOOLEAN : ChatTool(raised)
    \/ ChatFinalEnd

SpecChat == InitChat /\ [][NextChat]_vars /\ WF_vars(ChatProgress)

\* ------------------------------------------------------ orchestrator claims
Range(s) == {s[k] : k \in 1..Len(s)}

\* The calls a run awaits while it holds the lock.
PipelinePcs ==
    {"resolve", "lookup", "notfound", "upsert", "list", "nofilings", "purge",
     "filing_id", "fetch", "topics", "embed", "persist", "progress_update",
     "final"}

InPipeline(r) == pc[r] \in PipelinePcs

Running(c) == {r \in Tasks : InPipeline(r) /\ Row(r) = c}

StatusOf(c) == filing_index_status[c].status

\* C1: at most one invocation per company executes the pipeline at any time
\* (the lock is held exactly while one does), and an invocation that finds
\* the lock held returns the conflict result in that same step: it neither
\* waits nor enters the pipeline.
C1_OneRunPerCompany ==
    /\ [](\A c \in Companies :
            /\ Cardinality(Running(c)) <= 1
            /\ Locked(c) <=> Running(c) # {})
    /\ [][\A r \in Tasks :
            (pc[r] = "bg" /\ Locked(Upper(tk[r])) /\ pc'[r] # "bg")
                => (pc'[r] = "idle" /\ returned' = "conflict")]_vars

\* A second invocation was turned away while a run is in the pipeline.
C1_Witness == returned = "conflict" /\ \E r \in Tasks : InPipeline(r)

\* C2: a step in which index_company_filings returns the conflict result
\* changes neither the IndexState row, nor the stored passages, nor the
\* progress slot.
C2_ConflictChangesNothing ==
    [][returned' = "conflict"
          => UNCHANGED <<filing_index_status, filing_chunks,
                         indexing_progress>>]_vars

\* The conflict was returned with a row, passages and a progress message
\* in place.
C2_Witness ==
    /\ returned = "conflict"
    /\ StatusOf("AAPL") = "indexing"
    /\ filing_chunks["AAPL"] # <<>>
    /\ indexing_progress["AAPL"] # "none"

\* The status transitions the specification of IndexState allows.
SpecTransitions ==
    {<<"not_indexed", "indexing">>, <<"indexing", "ready">>,
     <<"indexing", "error">>, <<"ready", "indexing">>}

\* Those the code makes besides: the trigger endpoint starts a run over an
\* error row, deletion resets any row, and a run whose row was deleted
\* under it writes its final status over the missing row.
CodeTransitions ==
    SpecTransitions
    \cup {<<"error", "indexing">>}
    \cup {<<s, "not_indexed">> : s \in {"indexing", "ready", "error"}}
    \cup {<<"not_indexed", "ready">>, <<"not_indexed", "error">>}

StatusStep(c, allowed) ==
    StatusOf(c)' # StatusOf(c) => <<StatusOf(c), StatusOf(c)'>> \in allowed

\* C5 as claimed: the status of a company changes only along
\* not_indexed -> indexing, indexing -> ready, indexing -> error and
\* ready -> indexing.
C5_OnlySpecTransitions ==
    [][\A c \in Companies : StatusStep(c, SpecTransitions)]_vars

\* C5 as amended: the status changes only along the four transitions of the
\* claim, error -> indexing, any status -> not_indexed, and
\* not_indexed -> ready or error; never ready -> error or error -> ready.
C5_StatusTransitions ==
    [][\A c \in Companies : StatusStep(c, CodeTransitions)]_vars

\* A re-index was triggered over the passages of an earlier run.
C5_Witness ==
    /\ StatusOf("AAPL") = "indexing"
    /\ filing_chunks["AAPL"] # <<>>
    /\ \E r \in Tasks : pc[r] = "bg"
    /\ \A r \in Tasks : ~InPipeline(r)

\* C6 as claimed: at every moment at which a run holds the company's lock,
\* the status row of the company reads indexing.
C6_IndexingWhileLocked ==
    \A r \in Tasks : InPipeline(r) => StatusOf(Row(r)) = "indexing"

\* Filing i of the run failed: it has an error string and was not indexed.
Failed(locals, i) == i \in Range(locals.errors) /\ i \notin locals.indexed

JoinedErrors(errors) ==
    IF errors = <<>> THEN NoError ELSE [kind |-> "joined", errors |-> errors]

\* C7: the step that ends a run (summary, no filings, company not found)
\* leaves status ready if and only if at least one selected filing was
\* indexed, with the joined error strings of the others as the message, and
\* status error if and only if every selected filing failed or there was
\* none.
C7_FinalStatus ==
    [][\A r \in Tasks :
          (InPipeline(r) /\ pc'[r] = "idle" /\ returned' # "raised") =>
              LET row == filing_index_status'[Row(r)]
                  selected == 1..Len(rl[r].filings)
              IN  /\ row.status \in {"ready", "error"}
                  /\ row.status = "ready" <=> rl[r].indexed # {}
                  /\ row.status = "ready"
                        => row.error_message = JoinedErrors(rl[r].errors)
                  /\ row.status = "error"
                        <=> \A i \in selected : Failed(rl[r], i)]_vars

\* A run ended ready with the error string of a filing that failed.
C7_Witness ==
    /\ returned = "ready"
    /\ StatusOf("AAPL") = "ready"
    /\ filing_index_status["AAPL"].error_message.kind = "joined"

NoDuplicates(s) == \A j, k \in 1..Len(s) : s[j] = s[k] => j = k

\* The filings of a run the loop is done with.
Passed(r) == 1..(rl[r].i - 1)

\* Every filing the loop is done with was indexed or has an error string,
\* no filing has two, and the loop ends only behind the last selected
\* filing.
Accounted(r) ==
    /\ NoDuplicates(rl[r].errors)
    /\ \A j \in Passed(r) : j \in rl[r].indexed \/ j \in Range(rl[r].errors)
    /\ \A j \in Range(rl[r].errors) : j \notin rl[r].indexed => j \in Passed(r)
    /\ pc[r] = "final" => rl[r].i = Len(rl[r].filings) + 1

\* C8 as claimed: a failure at any stage of a filing, topic tagging
\* included, is recorded as an error string of that filing when the loop
\* moves on, and every selected filing is attempted.
C8_EveryFailureRecorded ==
    /\ [](\A r \in Tasks : InPipeline(r) => Accounted(r))
    /\ [][\A r \in Tasks :
            (rl[r].topics_failed /\ InPipeline(r)' /\ rl'[r].i # rl[r].i)
                => rl[r].i \in Range(rl'[r].errors)]_vars

\* C8 as amended: an exception of a stage (fetch, parse, chunk, embedding,
\* persist) is recorded as one error string of its filing, a failure of
\* topic tagging is swallowed and records none, and every selected filing
\* is attempted: the loop ends only behind the last one, with every filing
\* indexed or recorded.
C8_FailuresRecorded == \A r \in Tasks : InPipeline(r) => Accounted(r)

\* The first filing failed and the second is being persisted.
C8_Witness ==
    \E r \in Tasks :
        /\ pc[r] = "persist"
        /\ rl[r].i = 2
        /\ Failed(rl[r], 1)

\* C9 as claimed: when a run ends (ready, all filings failed, company not
\* found, no filings found) the progress slot of its company is empty.
C9_ProgressCleared ==
    [][\A r \in Tasks :
          (InPipeline(r) /\ pc'[r] = "idle"
              /\ returned' \in {"ready", "error", "not_found", "no_filings"})
              => indexing_progress'[Row(r)] = "none"]_vars

\* C10 as claimed: while a run is in progress, a step that changes the
\* company's status row or passages is a step of that run.
C10_RunIsOnlyWriter ==
    [][\A c \in Companies : \A r \in Running(c) :
          (filing_index_status'[c] # filing_index_status[c]
              \/ filing_chunks'[c] # filing_chunks[c])
              => (pc'[r] # pc[r] \/ rl'[r] # rl[r])]_vars

\* ----------------------------------------------------------- chunker claims
\* C3: chunk_filing terminates for every parsed document and every pair
\* (max_tokens, overlap), also with overlap >= max_tokens on a section longer
\* than max_tokens: every iteration of the splitting loop moves start
\* forward, so that start reaches the end of the section's tokens.
C3_SplitLoopAdvances ==
    [][(ck_pc = "split" /\ ck_pc' = "split") => ck_start' > ck_start]_vars

\* C24: the step that ends topic extraction always leads to the embedding of
\* the same filing, with no error recorded for it, an empty topic list if
\* the call or the parsing of its response failed, and never more than 8
\* phrases; no run ever holds more than 8.
C24_TopicFailureSwallowed ==
    /\ [][\A r \in Tasks :
            (pc[r] = "topics" /\ pc'[r] # "topics") =>
               /\ pc'[r] = "embed"
               /\ rl'[r].i = rl[r].i
               /\ rl'[r].n = rl[r].n
               /\ rl'[r].errors = rl[r].errors
               /\ rl'[r].topics_failed => rl'[r].topics = 0
               /\ rl'[r].topics <= 8]_vars
    /\ [](\A r \in Tasks : rl[r].topics <= 8)

\* A filing whose topic extraction failed has been embedded and persisted:
\* its rows are stored and it counts as indexed.
C24_Witness ==
    \E r \in Tasks :
       /\ pc[r] = "progress_update"
       /\ rl[r].topics_failed
       /\ rl[r].topics = 0
       /\ rl[r].i \in rl[r].indexed
       /\ rl[r].errors = <<>>
       /\ \E k \in 1..Len(filing_chunks[Row(r)]) :
             filing_chunks[Row(r)][k][1] = rl[r].i

\* The cap is reached: an array of more than 8 phrases was returned.
TopicsCapped == \E r \in Tasks : rl[r].topics = topics_cap

\* The calls a run awaits after its initial upsert of status indexing.
AfterUpsert == PipelinePcs \ {"resolve", "lookup", "notfound", "upsert"}

\* C26: a run that has written status indexing ends, by return or by an
\* exception, with a step that leaves the status of its company ready or
\* error.
C26_RunEndsReadyOrError ==
    [][\A r \in Tasks :
          (pc[r] \in AfterUpsert /\ pc'[r] = "idle")
             => filing_index_status'[Row(r)].status \in {"ready", "error"}]_vars

\* C27: when a run ends during which no DELETE request removed rows of its
\* company, the chunks_total of the company's status row equals the number
\* of rows stored for the company.
C27_ChunksTotalMatchesStore ==
    [][\A r \in Tasks :
          (InPipeline(r) /\ pc'[r] = "idle" /\ rl[r].alone)
             => filing_index_status'[Row(r)].chunks_total
                   = Len(filing_chunks'[Row(r)])]_vars

\* The same for runs that end with the final status update of step 5.
CompleteRunMatchesStore ==
    [][\A r \in Tasks :
          (pc[r] = "final" /\ pc'[r] = "idle" /\ rl[r].alone)
             => filing_index_status'[Row(r)].chunks_total
                   = Len(filing_chunks'[Row(r)])]_vars

\* C11: the chunks of chunk_filing carry the position indices 0..N-1 in list
\* order, without gap or repeat, at every point of the call and so in what it
\* returns, whatever the mix of text windows, table chunks, sections without
\* text and blank windows dropped.
C11_IndexSequential ==
    /\ \A k \in 1..Len(ck_chunks) : ck_chunks[k].chunk_index = k - 1
    /\ ck_idx = Len(ck_chunks)

\* A call returned chunks in which a table chunk of one section is followed
\* by text chunks of the next, between which the split dropped a blank
\* window.
C11_Witness ==
    /\ ck_pc = "returned"
    /\ \E k \in 1..Len(ck_chunks) :
           /\ ck_chunks[k].is_table
           /\ k + 2 <= Len(ck_chunks)
           /\ ~ck_chunks[k + 1].is_table
           /\ ~ck_chunks[k + 2].is_table
           /\ ck_max = 1
           /\ ck_overlap = 0
           /\ Max(ck_chunks[k + 1].text) + 1 < Min(ck_chunks[k + 2].text)

\* What window k of the split gives to the concatenation: its text, without
\* its first `overlap` tokens when it is not the first window.
WindowBody(windows, k) ==
    IF k = 1 THEN windows[k].text
    ELSE {p \in windows[k].text :
              Cardinality({q \in windows[k].text : q < p}) >= ck_overlap}

\* C12: when the split of a section text longer than max_tokens ends, with
\* overlap < max_tokens, the windows it returns, each after the first without
\* its leading overlap, concatenate to the token stream of the section: they
\* follow one another in stream order and leave no token out; and no window
\* counts more than max_tokens tokens.
C12_RoundTrip ==
    (ck_pc = "split" /\ ck_start >= Len(ck_section.text_content)
                    /\ ck_overlap < ck_max)
    => /\ UNION {WindowBody(ck_windows, k) : k \in 1..Len(ck_windows)}
              = 1..Len(ck_section.text_content)
       /\ \A j, k \in 1..Len(ck_windows) :
              j < k => \A p \in WindowBody(ck_windows, j),
                          q \in WindowBody(ck_windows, k) : p < q
       /\ \A k \in 1..Len(ck_windows) : ck_windows[k].token_count <= ck_max

\* The sections whose tables chunk_filing has gone through: all those
\* reached, but the one whose text is being split.
SectionsDone ==
    IF ck_pc = "split" THEN SubSeq(ck_seen, 1, Len(ck_seen) - 1) ELSE ck_seen

TableChunksOf(section_name) ==
    SelectSeq(ck_chunks, LAMBDA c : c.is_table /\ c.section_name = section_name)

RECURSIVE TablesIn(_)
TablesIn(sections) ==
    IF sections = <<>> THEN 0
    ELSE Len(Head(sections).tables) + TablesIn(Tail(sections))

\* C13: every table of every section gone through has exactly one chunk,
\* flagged as a table, which is that whole table with its own token count,
\* also above max_tokens; the table chunks of a section are its tables in
\* order; a chunk not flagged as a table is a piece of section text; and
\* the table chunks are as many as the tables.
C13_OneChunkPerTable ==
    /\ \A s \in 1..Len(SectionsDone) :
           LET section == SectionsDone[s]
               of_section == TableChunksOf(section.section_name)
           IN  /\ Len(of_section) = Len(section.tables)
               /\ \A k \in 1..Len(of_section) :
                      /\ of_section[k].text = [table |-> k]
                      /\ of_section[k].token_count = section.tables[k]
    /\ \A k \in 1..Len(ck_chunks) :
           ~ck_chunks[k].is_table => ck_chunks[k].text \subseteq 1..MaxTextLen
    /\ Len(SelectSeq(ck_chunks, LAMBDA c : c.is_table)) = TablesIn(SectionsDone)

\* A call returned on a document with tables in two sections, each above
\* max_tokens, and with text chunks.
C13_Witness ==
    /\ ck_pc = "returned"
    /\ TablesIn(ck_seen) >= 2
    /\ \A s \in 1..Len(ck_seen) : ck_seen[s].tables # <<>>
    /\ \E k \in 1..Len(ck_chunks) :
           ck_chunks[k].is_table /\ ck_chunks[k].token_count > ck_max
    /\ \E k \in 1..Len(ck_chunks) : ~ck_chunks[k].is_table

\* The place of a section in the document.
SectionNo(section_name) ==
    CHOOSE s \in 1..Len(SectionNames) : SectionNames[s] = section_name

\* C14: chunks come section by section in document order, each with the name
\* and the category of the one section it was cut from, and within a section
\* the text windows come before the table chunks.  With the settings'
\* max_tokens = 512 and overlap = 50, a text of 400 tokens is one window and
\* a text of 900 tokens is cut into two, so that a 400-token section and a
\* 900-token section with one table give the four chunks text, text, text,
\* table.
C14_SectionOrder ==
    /\ \A k \in 1..Len(ck_chunks) :
           \E s \in 1..Len(ck_seen) :
               /\ ck_chunks[k].section_name = ck_seen[s].section_name
               /\ ck_chunks[k].category = ck_seen[s].category
    /\ \A j, k \in 1..Len(ck_chunks) :
           j < k =>
               /\ SectionNo(ck_chunks[j].section_name)
                      <= SectionNo(ck_chunks[k].section_name)
               /\ (ck_chunks[j].section_name = ck_chunks[k].section_name
                      /\ ck_chunks[j].is_table) => ck_chunks[k].is_table
    /\ 400 <= chunk_max_tokens
    /\ WindowBounds(0, 900, chunk_max_tokens, chunk_overlap_tokens)
           = <<<<0, 512>>, <<462, 900>>>>

\* The small picture of the example: a section returned whole, then a section
\* split in two windows with one table, as four chunks.
C14_Witness ==
    /\ ck_pc = "returned"
    /\ Len(ck_chunks) = 4
    /\ [k \in 1..4 |-> ck_chunks[k].is_table] = <<FALSE, FALSE, FALSE, TRUE>>
    /\ [k \in 1..4 |-> SectionNo(ck_chunks[k].section_name)] = <<1, 2, 2, 2>>
    /\ [k \in 1..4 |-> ck_chunks[k].chunk_index] = <<0, 1, 2, 3>>

\* C29: with overlap < max_tokens, a window that _split_text_by_tokens emits
\* after the first ends beyond the end of the window of the iteration
\* before, which started max_tokens - overlap earlier.
C29_WindowsAdvance ==
    [][( /\ ck_pc = "split"
         /\ ck_overlap < ck_max
         /\ ck_start > 0
         /\ Len(ck_windows') > Len(ck_windows) )
       => LET total == Len(ck_section.text_content) IN
          Min({ck_start + ck_max, total}) > Min({ck_start + ck_overlap, total})
      ]_vars

\* ----------------------------------------------------------- parser claims
ParseDetected == pa_pc \in {"return", "returned"}

\* C15: a section starts after the last header of its item code, so no
\* header of that code follows its start and no two sections have one code;
\* it ends before the next header that is the last of its own code.  For
\* an annual report with two 'Item 1A' headers and then an 'Item 1' header,
\* the last two followed by content, there are exactly two sections, the
\* first from the second 'Item 1A' header up to the 'Item 1' header.
C15_LastOccurrence ==
    ParseDetected =>
      /\ \A i \in 1..Len(pa_sections) :
            LET s == pa_sections[i] IN
            /\ pa_text[s.first].item = s.section_id
            /\ \A k \in (s.first + 1)..Len(pa_text) :
                  pa_text[k].item # s.section_id
            /\ \A k \in (s.first + 1)..s.last :
                  \E l \in (k + 1)..Len(pa_text) :
                     pa_text[l].item = pa_text[k].item
            /\ s.last < Len(pa_text) =>
                  \A l \in (s.last + 2)..Len(pa_text) :
                     pa_text[l].item # pa_text[s.last + 1].item
            /\ \A j \in 1..Len(pa_sections) :
                  pa_sections[j].section_id = s.section_id => j = i
      /\ ( /\ pa_filing_type = "10-K"
           /\ Len(pa_text) = 3
           /\ pa_text[1].item = "1A" /\ pa_text[2].item = "1A"
           /\ pa_text[3].item = "1"
           /\ pa_text[2].len = LongLen /\ pa_text[3].len = LongLen )
         => /\ Len(pa_sections) = 2
            /\ pa_sections[1].section_id = "1A"
            /\ pa_sections[1].first = 2 /\ pa_sections[1].last = 2
            /\ pa_sections[2].section_id = "1"
            /\ pa_sections[2].first = 3

C15_Witness ==
    /\ pa_pc = "returned"
    /\ pa_filing_type = "10-K"
    /\ Len(pa_text) = 3
    /\ pa_text[1].item = "1A" /\ pa_text[2].item = "1A" /\ pa_text[3].item = "1"
    /\ pa_parsed.parse_quality = "sectioned"
    /\ Len(pa_parsed.sections) = 2
    /\ pa_parsed.sections[1].first = 2

\* The item codes of a document type's taxonomy as its headers print them: a
\* quarterly report numbers its items 'Item 1', 'Item 1A' within each part.
PrintedCodes(filing_type) ==
    CASE filing_type = "8-K" -> {"2.02", "5.02"}
      [] filing_type \in {"10-K", "10-Q"} -> {"1", "1A"}
      [] OTHER -> {}

MapNames(filing_type) ==
    {GetSectionMap(filing_type)[code].name :
        code \in DOMAIN GetSectionMap(filing_type)}

\* Two distinct item codes of the type's taxonomy whose kept headers are each
\* followed by content of the minimum length.
TwoItemsWithContent ==
    \E j, k \in 1..Len(pa_text) :
       /\ pa_text[j].item # pa_text[k].item
       /\ \A b \in {j, k} :
            /\ pa_text[b].item \in PrintedCodes(pa_filing_type)
            /\ pa_text[b].len >= min_section_len
            /\ \A l \in (b + 1)..Len(pa_text) : pa_text[l].item # pa_text[b].item

OwnMapSectioned ==
    /\ pa_parsed.parse_quality = "sectioned"
    /\ \A i \in 1..Len(pa_parsed.sections) :
          pa_parsed.sections[i].section_name \in MapNames(pa_filing_type)

\* C16: a 10-K, 10-Q or 8-K whose text has two distinct item headers of its
\* taxonomy, each followed by content of the minimum length, is returned
\* with quality sectioned and sections named from the type's own map.
C16_OwnItemMap ==
    ( /\ pa_pc = "returned"
      /\ pa_filing_type \in {"10-K", "10-Q", "8-K"}
      /\ TwoItemsWithContent )
    => OwnMapSectioned

\* The same for annual and current reports alone.
AnnualAndCurrentSectioned ==
    ( /\ pa_pc = "returned"
      /\ pa_filing_type \in {"10-K", "8-K"}
      /\ TwoItemsWithContent )
    => OwnMapSectioned

\* C17: with fewer than two detected sections, which is the case for an
\* unknown document type and for a text without headers, the result is one
\* section over the whole cleaned text with quality fallback whose tables are
\* all the kept tables in order; otherwise the result is the detected
\* sections, at least two, with quality sectioned.
C17_FallbackOrSectioned ==
    pa_pc = "returned" =>
      /\ (pa_filing_type = "S-1" \/ pa_text = <<>>) => Len(pa_sections) = 0
      /\ IF Len(pa_sections) < 2
         THEN /\ pa_parsed.parse_quality = "fallback"
              /\ Len(pa_parsed.sections) = 1
              /\ pa_parsed.sections[1].section_id = "full_document"
              /\ pa_parsed.sections[1].first = 1
              /\ pa_parsed.sections[1].last = Len(pa_text)
              /\ LET tables == pa_parsed.sections[1].tables IN
                 /\ {tables[i] : i \in 1..Len(tables)}
                      = {k \in 1..Len(pa_text) : pa_text[k].table}
                 /\ \A i, j \in 1..Len(tables) : i < j => tables[i] < tables[j]
         ELSE /\ pa_parsed.parse_quality = "sectioned"
              /\ pa_parsed.sections = pa_sections
              /\ Len(pa_parsed.sections) >= 2

\* One section was detected, and the fallback carries two tables.
C17_Witness ==
    /\ pa_pc = "returned"
    /\ Len(pa_sections) = 1
    /\ pa_parsed.parse_quality = "fallback"
    /\ Len(pa_parsed.sections[1].tables) >= 2

\* The characters of a span once the placeholders of its tables are detached.
RemainingLen(text, first, last) ==
    SpanLen(text, first, last)
      - Cardinality({k \in first..last : text[k].table}) * (1 + placeholder_len)

\* The kept headers of codes the type's map knows, each with the end of its
\* span.
Candidates ==
    LET kept == {k \in 1..Len(pa_text) :
                    \A l \in (k + 1)..Len(pa_text) :
                       pa_text[l].item # pa_text[k].item}
    IN  {[first |-> k,
          last |-> IF \E l \in kept : l > k
                   THEN Min({l \in kept : l > k}) - 1 ELSE Len(pa_text)] :
            k \in {l \in kept :
                     pa_text[l].item \in DOMAIN GetSectionMap(pa_filing_type)}}

\* C18: a detected section is dropped exactly when its text without the
\* placeholders of its tables is shorter than the minimum length, and every
\* section of a sectioned result has at least that much text.
C18_ShortSectionsDiscarded ==
    ParseDetected =>
      /\ \A c \in Candidates :
            (\E i \in 1..Len(pa_sections) : pa_sections[i].first = c.first)
               <=> RemainingLen(pa_text, c.first, c.last) >= min_section_len
      /\ pa_parsed.parse_quality = "sectioned" =>
            \A i \in 1..Len(pa_parsed.sections) :
               pa_parsed.sections[i].text_len >= min_section_len

\* C28: no section of a returned ParsedFiling, sectioned or fallback, has a
\* table placeholder left in its text.
C28_NoPlaceholderInText ==
    pa_pc = "returned" =>
       \A i \in 1..Len(pa_parsed.sections) :
          pa_parsed.sections[i].placeholders = {}

\* The same for sectioned results alone.
SectionedWithoutPlaceholders ==
    (pa_pc = "returned" /\ pa_parsed.parse_quality = "sectioned") =>
       \A i \in 1..Len(pa_parsed.sections) :
          pa_parsed.sections[i].placeholders = {}

\* ----------------------------------------------------------- search claims
\* The stored rows that pass the filters, nearest first.
Matching == SelectSeq(vs_store, LAMBDA row : row.matches)

\* C19: a search that returns with at least one stored row passing the
\* filters returns a non-empty list that begins with the nearest such row;
\* when the budget is below that row's token count, the list is that row
\* alone.
C19_TopCandidateIncluded ==
    (vs_pc = "returned" /\ Matching # <<>>) =>
       /\ vs_results # <<>>
       /\ vs_results[1].rank = Matching[1].rank
       /\ vs_max_tokens < OrZero(Matching[1].token_count)
            => Len(vs_results) = 1

\* Two rows pass the filters, the cap admits both, and the nearest alone
\* exceeds the budget.
C19_Witness ==
    /\ vs_pc = "returned"
    /\ Len(Matching) >= 2
    /\ vs_top_k >= 2
    /\ vs_max_tokens < OrZero(Matching[1].token_count)
    /\ Len(vs_results) = 1
    /\ vs_results[1].rank = Matching[1].rank

\* The first n numbers of a list, summed.
RECURSIVE SumFirst(_, _)
SumFirst(counts, n) ==
    IF n = 0 THEN 0 ELSE SumFirst(counts, n - 1) + counts[n]

\* The token counts of the candidates and of the results, in order.
CandidateTokens == [k \in 1..Len(Matching) |-> OrZero(Matching[k].token_count)]

ResultTokens == [k \in 1..Len(vs_results) |-> vs_results[k].token_count]

\* A prefix of n candidates is admissible: within the cap, and within the
\* budget unless it is the first candidate alone.
Admissible(n) ==
    /\ n <= Len(Matching)
    /\ n <= vs_top_k
    /\ n <= 1 \/ SumFirst(CandidateTokens, n) <= vs_max_tokens

\* C25: the results of a search that returns are the longest admissible
\* prefix of the candidates in order of similarity: no candidate is skipped,
\* there are at most top_k results, and their tokens exceed the budget only
\* when there is a single result.
C25_LongestPrefix ==
    vs_pc = "returned" =>
       LET n == Len(vs_results) IN
       /\ n <= Len(Matching)
       /\ \A k \in 1..n :
             /\ vs_results[k].rank = Matching[k].rank
             /\ vs_results[k].token_count = OrZero(Matching[k].token_count)
       /\ Admissible(n)
       /\ \A k \in (n + 1)..Len(Matching) : ~Admissible(k)
       /\ n <= vs_top_k
       /\ SumFirst(ResultTokens, n) > vs_max_tokens => n = 1

\* The second candidate does not fit and the search stops there, although
\* the third would have fitted and the cap was not reached.
C25_Witness ==
    /\ vs_pc = "returned"
    /\ Len(Matching) >= 3
    /\ vs_top_k >= 2
    /\ Len(vs_results) = 1
    /\ SumFirst(CandidateTokens, 1) <= vs_max_tokens
    /\ SumFirst(CandidateTokens, 2) > vs_max_tokens
    /\ CandidateTokens[1] + CandidateTokens[3] <= vs_max_tokens

\* ------------------------------------------------------ agentic loop claims
\* The calls of a list in ascending order of their call index.
RECURSIVE ByIndex(_)
ByIndex(calls) ==
    IF calls = <<>> THEN <<>>
    ELSE LET least == CHOOSE t \in Range(calls) :
                         \A u \in Range(calls) : t.index <= u.index
         IN  <<least>> \o ByIndex(SelectSeq(calls, LAMBDA t : t # least))

\* C20: the tool calls of one stream run in ascending order of call index:
\* the calls still to run are in that order, and the tool messages that
\* follow an assistant message answer its calls in that order.
C20_CallIndexOrder ==
    /\ \A i, j \in 1..Len(ch_todo) :
          i < j => ch_todo[i].index < ch_todo[j].index
    /\ \A m \in 1..Len(ch_full_messages) :
          ch_full_messages[m].role = "assistant" =>
             LET calls == ByIndex(ch_full_messages[m].tool_calls) IN
             \A k \in 1..Len(calls) :
                m + k <= Len(ch_full_messages) =>
                   /\ ch_full_messages[m + k].role = "tool"
                   /\ ch_full_messages[m + k].tool_call_id = calls[k].id

ChatEnded == ch_pc \in {"returned", "raised"}

Last(s) == s[Len(s)]

Terminal == {"done", "error"}

\* C22: a terminal event is the last event sent; a running turn has sent
\* none; a turn that returned has sent done and a turn in which a completion
\* call or a stream raised has sent error; nothing is sent after the turn
\* has ended; and every turn ends.
C22_OneTerminalEvent ==
    /\ [](/\ \A k \in 1..Len(ch_events) :
                ch_events[k] \in Terminal => k = Len(ch_events)
          /\ ~ChatEnded =>
                \A k \in 1..Len(ch_events) : ch_events[k] \notin Terminal
          /\ ch_pc = "returned" =>
                ch_events # <<>> /\ Last(ch_events) = "done"
          /\ ch_pc = "raised" =>
                ch_events # <<>> /\ Last(ch_events) = "error")
    /\ [][ChatEnded => ch_events' = ch_events]_vars
    /\ <>ChatEnded

\* A stream raised after tokens and a status event had been sent.
C22_Witness ==
    /\ ch_pc = "raised"
    /\ Len(ch_events) >= 3
    /\ Last(ch_events) = "error"
    /\ \E k \in 1..Len(ch_events) : ch_events[k] = "token"
    /\ \E k \in 1..Len(ch_events) : ch_events[k] = "status"

\* C23: when the stream of an iteration ends, tools are run exactly if the
\* finish reason is tool_calls and a tool-call fragment was received;
\* otherwise done is sent and the turn has returned, with no status event,
\* no new message and no new completion call, then or later.  A tool is
\* only ever run for a call of the assistant message of such a stream.
C23_NoToolNoLoop ==
    /\ [][(ch_pc = "stream" /\ ch_pc' \notin {"stream", "raised"}) =>
            IF ch_finish_reason = "tool_calls" /\ ch_tool_calls_by_index # <<>>
            THEN /\ ch_pc' = "tool"
                 /\ ch_todo' # <<>>
                 /\ Last(ch_full_messages').role = "assistant"
                 /\ Last(ch_full_messages').tool_calls = ch_todo'
            ELSE /\ ch_pc' = "returned"
                 /\ ch_events' = Append(ch_events, "done")
                 /\ ch_calls' = ch_calls
                 /\ ch_full_messages' = ch_full_messages]_vars
    /\ [][ch_pc = "returned" =>
            /\ ch_pc' = "returned"
            /\ UNCHANGED <<ch_calls, ch_events, ch_full_messages>>]_vars
    /\ [][ch_pc' = "tool" => ch_pc \in {"stream", "tool"}]_vars
    /\ [](ch_pc = "tool" => ch_todo # <<>>)

\* A turn with tools allowed whose first stream gave content and no tool
\* request: one completion call, token and done, no tool message.
C23_Witness ==
    /\ ch_pc = "returned"
    /\ ch_max_iterations >= 1
    /\ Len(ch_calls) = 1
    /\ ch_events = <<"token", "done">>
    /\ \A m \in 1..Len(ch_full_messages) :
          ch_full_messages[m].role \in {"system", "user"}

\* The conversation starts with the system prompt and the caller's messages,
\* and after them consists of assistant messages with tool calls, each
\* followed by the tool messages of its calls, one per call, in the order of
\* the calls and with their ids.
WellFormed(messages) ==
    /\ Len(messages) >= 2
    /\ messages[1] = Message("system", "system_prompt", <<>>, "")
    /\ messages[2] = Message("user", "question", <<>>, "")
    /\ \A m \in 3..Len(messages) :
          /\ messages[m].role \in {"assistant", "tool"}
          /\ messages[m].role = "assistant" =>
                LET calls == messages[m].tool_calls IN
                /\ calls # <<>>
                /\ m + Len(calls) <= Len(messages)
                /\ \A k \in 1..Len(calls) :
                      /\ messages[m + k].role = "tool"
                      /\ messages[m + k].tool_call_id = calls[k].id
                /\ m + Len(calls) < Len(messages) =>
                      messages[m + Len(calls) + 1].role = "assistant"
          /\ messages[m].role = "tool" =>
                \E a \in 3..(m - 1) :
                   /\ messages[a].role = "assistant"
                   /\ m - a <= Len(messages[a].tool_calls)
                   /\ \A b \in (a + 1)..m : messages[b].role = "tool"

\* C30: whenever a completion call is about to be made, the conversation it
\* is given is well formed.
C30_BufferWellFormed ==
    ch_pc \in {"create", "final_create"} => WellFormed(ch_full_messages)

\* The call after an iteration with two tool calls: the assistant message and
\* its two tool messages are in the conversation.
C30_Witness ==
    /\ ch_pc \in {"create", "final_create"}
    /\ Len(ch_full_messages) = 5
    /\ ch_full_messages[3].role = "assistant"
    /\ Len(ch_full_messages[3].tool_calls) = 2
    /\ ch_full_messages[4].tool_call_id = ch_full_messages[3].tool_calls[1].id
    /\ ch_full_messages[5].tool_call_id = ch_full_messages[3].tool_calls[2].id
    /\ ch_full_messages[4].tool_call_id # ch_full_messages[5].tool_call_id

====
